---- MODULE Spec2Model ----
(***************************************************************************)
(* PVFLL_001 display controller: the snapshot of the four boxes            *)
(* (main.py), the update path driven by Pusher events (pusher_events.py,   *)
(* main.update_single_box) and the e-ink refresh scheduler                 *)
(* (display.display_boxes).                                                *)
(***************************************************************************)
EXTENDS Integers, Sequences, FiniteSets, TLC

(***************************************************************************)
(* Program constants and bounds                                            *)
(***************************************************************************)

\* display.py:33
FULL_REFRESH_INTERVAL == 10

\* api.py:84  boxes = [1, 2, 3, 4]; display.py:185
Boxes == {1, 2, 3, 4}

\* Number of Pusher notifications delivered in one run.
MaxEvents == 2

\* Number of faults in one run: a driver call (init, refresh, clear, sleep)
\* that raises, or an icon that cannot be loaded.
MaxFailures == 1

\* Number of shutdown signals (SIGINT, SIGTERM) delivered in one run of the
\* shutdown study (SpecShutdown).
MaxSignals == 2

\* Threads that run the Pusher event callback, in the order in which they
\* are handed an event.
HandlerOrder == <<"h1", "h2">>

Handlers == {HandlerOrder[i] : i \in 1..Len(HandlerOrder)}

\* The main thread (main.main and the signal handler that interrupts it).
MainThread == "main"

\* A sequential client of the display module (display.py used on its own,
\* as its __main__ block does).
ApiThread == "api"

Threads == Handlers \cup {MainThread, ApiThread}

\* The threads of the running program.
ProgramThreads == Handlers \cup {MainThread}

\* Box numbers a Pusher event may carry (5 is not one of the four boxes).
EventBoxes == {1, 2, 5}

(***************************************************************************)
(* Status records: Python dicts, modelled as functions over field names.   *)
(* Text is a sequence of characters.                                       *)
(***************************************************************************)

RecEmpty == [empty |-> TRUE]
RecFile  == [empty |-> FALSE, name |-> <<"a", ".", "j", "p", "g">>,
             type |-> "Image (JPEG)", size |-> <<1, 512>>]
RecError == [empty |-> TRUE, error |-> <<"t", "i", "m", "e", "o", "u", "t">>]

\* What fetch_box_status(box_number) can return: the server's data, or the
\* error record once its retries are used up.  The requests for box 2 are the
\* ones that can fail.
FetchResults(box_num) == IF box_num = 2 THEN {RecFile, RecError} ELSE {RecFile}

\* Boxes for which the server can reply with JSON that is not an object:
\* data.setdefault raises AttributeError, which is not a RequestException and
\* leaves fetch_box_status uncaught.
BadReplyBoxes == {2}

\* What the initial fetch_all_boxes can return.
InitialFetches ==
    { [b \in Boxes |-> IF b = 1 THEN RecFile ELSE IF b = 3 THEN RecError ELSE RecEmpty] }

\* Value of a local variable that is not bound.
NoRecord == [unbound |-> TRUE]

\* A call that has not returned.
NotReturned == [returned |-> FALSE]
NoDict == <<>>
NoImage == <<>>

\* dict.get(key, default)
Get(d, key, default) == IF key \in DOMAIN d THEN d[key] ELSE default

\* A faulty d[key] = value that rebuilds the dict and loses the other entries.
SetItemLosesOthers(d, key, value) ==
    [k \in DOMAIN d \cup {key} |-> IF k = key THEN value ELSE RecEmpty]

\* d[key] = value on a dict: adds the key when it is absent.
SetItem(d, key, value) ==
    [k \in DOMAIN d \cup {key} |-> IF k = key THEN value ELSE d[k]]

VARIABLES
    pc,                   \* position of each thread
    epd,                  \* display.epd: "none" or "ready"
    file_icon,            \* display.file_icon is loaded
    partial_supported,    \* the driver has init_part / display_Partial
    full_refresh_counter, \* display.full_refresh_counter
    current_box_data,     \* main.current_box_data
    data_lock,            \* main.data_lock: its holder, or "free"
    running,              \* main.running
    listening,            \* the Pusher listener delivers events
    exited,               \* the process has exited
    box_number,           \* update_single_box: box_number
    new_data,             \* update_single_box: new_data
    display_data,         \* box_data argument of display_boxes
    force,                \* force_full_refresh argument of display_boxes
    image,                \* display_boxes: image
    tmp,                  \* value loaded by full_refresh_counter += 1
    use_full,             \* display_boxes: use_full_refresh
    mode,                 \* driver call made by the current display_boxes call
    outcome,              \* how the current display_boxes call ended
    presented,            \* image last written to the panel, with its mode
    events,               \* notifications delivered so far
    failures,             \* driver failures so far
    pre_merge,            \* snapshot as it was when the handler merged
    entry_counter,        \* counter at entry of the client's current call
    streak,               \* client's consecutive plain successful calls since c = 0
    since_force,          \* client's display_boxes calls since force_full_refresh()
    first_forced_ok,      \* the first call after force_full_refresh() refreshed
    prev_failed,          \* the driver refresh of the client's previous call failed
    first_image,          \* image returned by the client's previous render
    renders,              \* create_layout_image calls of the client so far
    signals,              \* shutdown signals that are still to come
    clears,               \* calls of clear_display() so far
    sleeps,               \* calls of sleep_display() so far
    partials,             \* partial refreshes since the last full refresh
    last_fetch,           \* per observed box: the record fetched last, the fetches
    fetch_call,           \* frame of fetch_box_status
    attempt_log,          \* what the current fetch_box_status call did so far
    fetch_returned,       \* what the last fetch_box_status call returned
    results,              \* fetch_all_boxes: results
    boot_steps,           \* steps boot_sequence has begun
    boot_outcomes,        \* how the steps of boot_sequence ended
    boot_returned,        \* what boot_sequence returned
    on_box_update,        \* PusherListener.on_box_update
    last_event,           \* data of the last event given to _on_file_event
    callback_calls,       \* arguments of the callback calls made for that event
    escaped,              \* an exception left _on_file_event
    delivered,            \* events given to _on_file_event so far
    printed               \* size text written by the client with api.format_size

globals == <<epd, file_icon, partial_supported, full_refresh_counter,
             current_box_data, data_lock, running, listening, exited>>
update_locals == <<box_number, new_data, pre_merge>>
display_locals == <<display_data, force, image, tmp, use_full, mode, outcome>>
shutdown_history == <<signals, clears, sleeps>>
render_history == <<first_image, renders>>
client_history == <<entry_counter, streak, since_force, first_forced_ok, prev_failed>>
fetch_locals == <<fetch_call, attempt_log, fetch_returned, results>>
boot_locals == <<boot_steps, boot_outcomes, boot_returned>>
listener_locals == <<on_box_update, last_event, callback_calls, escaped, delivered>>
service == <<fetch_locals, boot_locals, listener_locals, printed>>
history == <<client_history, render_history, shutdown_history, partials, last_fetch,
             service>>
vars == <<pc, globals, update_locals, display_locals, presented, events, failures, history>>

(***************************************************************************)
(* util.format_size                                                        *)
(***************************************************************************)

\* A size in bytes is written in base 1024, most significant digit first and
\* without leading zeros: 1536 is <<1, 512>>, 0 is <<0>>.  Python's ints have
\* no upper limit, and float(b) is exact below 2^53, so for up to five digits
\* (b < 2^50) the divisions by 1024 of the code are exact and are shifts of
\* the point by one digit.

\* An absent size (None).
None == <<>>

\* The digits of a small integer.
RECURSIVE Bytes(_)
Bytes(n) == IF n < 1024 THEN <<n>> ELSE Bytes(n \div 1024) \o <<n % 1024>>

\* The integer written by a few digits.
RECURSIVE IntValue(_)
IntValue(ds) ==
    IF ds = <<>> THEN 0 ELSE 1024 * IntValue(SubSeq(ds, 1, Len(ds) - 1)) + ds[Len(ds)]

\* units = ["B", "KB", "MB", "GB"]
units == <<"B", "KB", "MB", "GB">>

\* A loop that stops one unit before the end of the list.
RECURSIVE ScaleStopsEarly(_, _, _)
ScaleStopsEarly(int, frac, unit_index) ==
    IF Len(int) >= 2 /\ unit_index < Len(units) - 2
    THEN ScaleStopsEarly(SubSeq(int, 1, Len(int) - 1), <<int[Len(int)]>> \o frac,
                         unit_index + 1)
    ELSE [int |-> int, frac |-> frac, unit_index |-> unit_index]

\* while size >= 1024 and unit_index < len(units) - 1: size /= 1024; unit_index += 1
\* size is int.frac; size >= 1024 when its integer part has two digits or more.
RECURSIVE Scale(_, _, _)
Scale(int, frac, unit_index) ==
    IF Len(int) >= 2 /\ unit_index < Len(units) - 1
    THEN Scale(SubSeq(int, 1, Len(int) - 1), <<int[Len(int)]>> \o frac, unit_index + 1)
    ELSE [int |-> int, frac |-> frac, unit_index |-> unit_index]

\* Ten times a fraction 0.ds: the integer part and the fraction that is left.
RECURSIVE Times10(_)
Times10(ds) ==
    IF ds = <<>>
    THEN [carry |-> 0, digits |-> <<>>]
    ELSE LET rest == Times10(Tail(ds))
             p == 10 * Head(ds) + rest.carry
         IN  [carry |-> p \div 1024, digits |-> <<p % 1024>> \o rest.digits]

\* The fraction 0.ds compared with one half.
AboveHalf(ds) ==
    ds # <<>> /\ (ds[1] > 512 \/ (ds[1] = 512 /\ \E i \in 2..Len(ds) : ds[i] # 0))
IsHalf(ds) == ds # <<>> /\ ds[1] = 512 /\ \A i \in 2..Len(ds) : ds[i] = 0

\* f"{size:.1f}": int.frac to one decimal, rounded to nearest, ties to even.
RoundTenths(int, frac) ==
    LET m == Times10(frac)
        up == AboveHalf(m.digits) \/ (IsHalf(m.digits) /\ m.carry % 2 = 1)
        d == m.carry + (IF up THEN 1 ELSE 0)
    IN  IF d = 10
        THEN [whole |-> IntValue(int) + 1, decimals |-> <<0>>]
        ELSE [whole |-> IntValue(int), decimals |-> <<d>>]

\* A formatting that writes one decimal for sizes in bytes as well.
format_size_decimal_bytes(bytes_value) ==
    IF bytes_value = None \/ bytes_value = Bytes(0)
    THEN [whole |-> 0, decimals |-> <<>>, unit |-> "B"]
    ELSE LET size == Scale(bytes_value, <<>>, 0)
             r == RoundTenths(size.int, size.frac)
         IN  [whole |-> r.whole, decimals |-> r.decimals,
              unit |-> units[size.unit_index + 1]]

\* The formatted size: the digits before the point, the decimals, the unit.
format_size(bytes_value) ==
    IF bytes_value = None \/ bytes_value = Bytes(0)
    THEN [whole |-> 0, decimals |-> <<>>, unit |-> "B"]
    ELSE LET size == Scale(bytes_value, <<>>, 0)
         IN  IF size.unit_index = 0
             THEN [whole |-> IntValue(size.int), decimals |-> <<>>,
                   unit |-> units[size.unit_index + 1]]
             ELSE LET r == RoundTenths(size.int, size.frac)
                  IN  [whole |-> r.whole, decimals |-> r.decimals,
                       unit |-> units[size.unit_index + 1]]

(***************************************************************************)
(* api.format_size and api.print_box_status                                *)
(***************************************************************************)

\* api.py:98  units = ["B", "KB", "MB", "GB"]
api_units == <<"B", "KB", "MB", "GB">>

\* api.py:102-104  while size >= 1024 and unit_index < len(units) - 1
RECURSIVE api_scale(_, _, _)
api_scale(int, frac, unit_index) ==
    IF Len(int) >= 2 /\ unit_index < Len(api_units) - 1
    THEN api_scale(SubSeq(int, 1, Len(int) - 1), <<int[Len(int)]>> \o frac,
                   unit_index + 1)
    ELSE [int |-> int, frac |-> frac, unit_index |-> unit_index]

\* api.format_size: the copy of the formatting kept in api.py.
api_format_size(bytes_value) ==
    IF bytes_value = None \/ bytes_value = Bytes(0)
    THEN [whole |-> 0, decimals |-> <<>>, unit |-> "B"]
    ELSE LET size == api_scale(bytes_value, <<>>, 0)
         IN  IF size.unit_index = 0
             THEN [whole |-> IntValue(size.int), decimals |-> <<>>,
                   unit |-> api_units[size.unit_index + 1]]
             ELSE LET r == RoundTenths(size.int, size.frac)
                  IN  [whole |-> r.whole, decimals |-> r.decimals,
                       unit |-> api_units[size.unit_index + 1]]

\* What print_box_status prints for each box of box_data.
print_box_status(box_data) ==
    [box_num \in DOMAIN box_data |->
        LET data == box_data[box_num]
        IN  IF "error" \in DOMAIN data /\ Len(data["error"]) > 0
            THEN << <<"ERROR: ", data["error"]>> >>
            ELSE IF Get(data, "empty", TRUE)
            THEN << <<"Status: Empty">> >>
            ELSE << <<"Status: Has file">>,
                    <<"Name: ", Get(data, "name", <<"U", "n", "k", "n", "o", "w", "n">>)>>,
                    <<"Type: ", Get(data, "type", "Unknown")>>,
                    <<"Size: ", api_format_size(Get(data, "size", None))>> >>]

(***************************************************************************)
(* Rendering: display.draw_box and display.create_layout_image             *)
(***************************************************************************)

Ellipsis == <<".", ".", ".">>

Unknown == <<"U", "n", "k", "n", "o", "w", "n">>

\* s[:n]
Prefix(s, n) == SubSeq(s, 1, IF Len(s) < n THEN Len(s) ELSE n)

\* Truth value of box_data.get("error"): a non-empty message.
HasError(box_data) == "error" \in DOMAIN box_data /\ Len(box_data["error"]) > 0

\* A cell whose file name is cut at 30 characters before the dots are added.
draw_box_cut_at_cap(box_num, box_data, icon_loaded) ==
    LET icon == ~Get(box_data, "empty", TRUE) /\ icon_loaded
    IN  IF HasError(box_data)
        THEN LET e == box_data["error"]
                 error_msg == IF Len(e) > 30 THEN Prefix(e, 30) \o Ellipsis ELSE e
             IN  [number |-> box_num, icon |-> icon,
                  lines |-> << <<"ERROR">>, <<error_msg>> >>]
        ELSE IF Get(box_data, "empty", TRUE)
        THEN [number |-> box_num, icon |-> icon, lines |-> << <<"Empty">> >>]
        ELSE LET n == Get(box_data, "name", Unknown)
                 name == IF Len(n) > 30 THEN Prefix(n, 30) \o Ellipsis ELSE n
                 file_type == Get(box_data, "type", "Unknown")
                 size == format_size(Get(box_data, "size", Bytes(0)))
             IN  [number |-> box_num, icon |-> icon,
                  lines |-> << <<"File: ", name>>, <<"Type: ", file_type>>,
                               <<"Size: ", size>> >>]

\* What draw_box draws in one cell: the box number, the icon, the text lines.
draw_box(box_num, box_data, icon_loaded) ==
    LET icon == ~Get(box_data, "empty", TRUE) /\ icon_loaded
    IN  IF HasError(box_data)
        THEN LET e == box_data["error"]
                 error_msg == IF Len(e) > 30 THEN Prefix(e, 30) \o Ellipsis ELSE e
             IN  [number |-> box_num, icon |-> icon,
                  lines |-> << <<"ERROR">>, <<error_msg>> >>]
        ELSE IF Get(box_data, "empty", TRUE)
        THEN [number |-> box_num, icon |-> icon, lines |-> << <<"Empty">> >>]
        ELSE LET n == Get(box_data, "name", Unknown)
                 name == IF Len(n) > 30 THEN Prefix(n, 27) \o Ellipsis ELSE n
                 file_type == Get(box_data, "type", "Unknown")
                 size == format_size(Get(box_data, "size", Bytes(0)))
             IN  [number |-> box_num, icon |-> icon,
                  lines |-> << <<"File: ", name>>, <<"Type: ", file_type>>,
                               <<"Size: ", size>> >>]

\* A grid that reports a missing box as an error.
create_layout_image_strict(box_data, icon_loaded) ==
    [box_num \in Boxes |->
        draw_box(box_num, Get(box_data, box_num, RecError), icon_loaded)]

\* A grid that numbers its cells onward from the refresh counter.
create_layout_image_stamped(box_data, icon_loaded) ==
    [box_num \in Boxes |->
        draw_box(box_num + full_refresh_counter, Get(box_data, box_num, RecEmpty),
                 icon_loaded)]

\* The 2x2 grid: one cell per box 1..4, a missing box drawn as {"empty": True}.
create_layout_image(box_data, icon_loaded) ==
    [box_num \in Boxes |->
        draw_box(box_num, Get(box_data, box_num, RecEmpty), icon_loaded)]

(***************************************************************************)
(* display.display_boxes, one action per step of a call by thread t        *)
(***************************************************************************)

Goto(t, label) == pc' = [pc EXCEPT ![t] = label]

\* The call display_boxes(box_data, force_full_refresh) by thread t.
EnterDisplayBoxes(t, box_data, force_full_refresh) ==
    /\ display_data' = [display_data EXCEPT ![t] = box_data]
    /\ force' = [force EXCEPT ![t] = force_full_refresh]
    /\ Goto(t, "db_render")

\* The frame of display_boxes is dropped when the call is over.
LeaveDisplayBoxes(t) ==
    /\ display_data' = [display_data EXCEPT ![t] = NoDict]
    /\ force' = [force EXCEPT ![t] = FALSE]
    /\ image' = [image EXCEPT ![t] = NoImage]
    /\ tmp' = [tmp EXCEPT ![t] = 0]
    /\ use_full' = [use_full EXCEPT ![t] = FALSE]
    /\ mode' = [mode EXCEPT ![t] = "none"]
    /\ outcome' = [outcome EXCEPT ![t] = "none"]

\* A threshold test that lets one more partial refresh through.
UseFullRefreshStrict(force_full_refresh, counter) ==
    force_full_refresh \/ counter > FULL_REFRESH_INTERVAL

\* use_full_refresh = force_full_refresh or (full_refresh_counter >= FULL_REFRESH_INTERVAL)
UseFullRefresh(force_full_refresh, counter) ==
    force_full_refresh \/ counter >= FULL_REFRESH_INTERVAL

\* An except clause that passes the failure on.
OnDriverFailureReraise == "raised"

\* except Exception as e: print(...): the failure is caught.
OnDriverFailure == "caught"

\* image = create_layout_image(box_data); if epd is None: raise RuntimeError;
\* then the load of full_refresh_counter += 1. The rendering reads nothing
\* that another thread writes, so it is one step with the load that follows.
\* The caller's locals are not read again.
DbRender(t) ==
    /\ pc[t] = "db_render"
    /\ ~exited
    /\ image' = [image EXCEPT ![t] = create_layout_image(display_data[t], file_icon)]
    /\ IF epd = "none"
       THEN /\ outcome' = [outcome EXCEPT ![t] = "not_initialized"]
            /\ Goto(t, "db_ret")
            /\ UNCHANGED tmp
       ELSE /\ tmp' = [tmp EXCEPT ![t] = full_refresh_counter]
            /\ Goto(t, "db_store")
            /\ UNCHANGED outcome
    /\ box_number' = [box_number EXCEPT ![t] = 0]
    /\ new_data' = [new_data EXCEPT ![t] = NoRecord]
    /\ pre_merge' = [pre_merge EXCEPT ![t] = NoDict]
    /\ UNCHANGED <<globals, display_data, force, use_full, mode, presented, events,
                   failures, history>>

\* A counter that wraps at the interval instead of being reset by the refresh.
IncrementedWrapping(counter) == (counter + 1) % FULL_REFRESH_INTERVAL

\* full_refresh_counter += 1: the sum
Incremented(counter) == counter + 1

\* full_refresh_counter += 1: the store of the sum
DbStore(t) ==
    /\ pc[t] = "db_store"
    /\ ~exited
    /\ full_refresh_counter' = Incremented(tmp[t])
    /\ Goto(t, "db_decide")
    /\ UNCHANGED <<epd, file_icon, partial_supported, current_box_data, data_lock,
                   running, listening, exited, update_locals, display_locals,
                   presented, events, failures, history>>

\* The choice of the refresh mode; the driver call it leads to begins.
DbDecide(t) ==
    /\ pc[t] = "db_decide"
    /\ ~exited
    /\ LET u == UseFullRefresh(force[t], full_refresh_counter)
       IN  /\ use_full' = [use_full EXCEPT ![t] = u]
           /\ mode' = [mode EXCEPT ![t] = IF u THEN "full" ELSE "partial"]
           /\ Goto(t, IF u THEN "epd_full" ELSE "epd_partial")
    /\ UNCHANGED <<globals, update_locals, display_data, force, image, tmp, outcome,
                   presented, events, failures, history>>

\* full_refresh_counter = 0 after epd.init(); epd.display(...)
CounterAfterFull(counter) == 0

\* epd.init(); epd.display(epd.getbuffer(image)) returns or raises.
EpdFullReturn(t) ==
    /\ pc[t] = "epd_full"
    /\ ~exited
    /\ \E ok \in BOOLEAN :
        /\ ok \/ failures < MaxFailures
        /\ IF ok
           THEN /\ presented' = [image |-> image[t], mode |-> "full"]
                /\ full_refresh_counter' = CounterAfterFull(full_refresh_counter)
                /\ outcome' = [outcome EXCEPT ![t] = "ok"]
                /\ partials' = 0
                /\ UNCHANGED failures
           ELSE /\ failures' = failures + 1
                /\ outcome' = [outcome EXCEPT ![t] = OnDriverFailure]
                /\ UNCHANGED <<presented, full_refresh_counter, partials>>
    /\ Goto(t, "db_ret")
    /\ UNCHANGED <<epd, file_icon, partial_supported, current_box_data, data_lock,
                   running, listening, exited, update_locals, display_data, force,
                   image, tmp, use_full, mode, events, client_history,
                   render_history, shutdown_history, last_fetch, service>>

\* The count of partial refreshes since the last full one, after one more.
\* It is not counted beyond twice the interval.
PartialsAfterPartial(n) == IF n < 2 * FULL_REFRESH_INTERVAL THEN n + 1 ELSE n

\* epd.init_part(); epd.display_Partial(...) returns, raises, or is missing
\* (AttributeError), and then the fallback epd.init(); epd.display(...) begins.
EpdPartialReturn(t) ==
    /\ pc[t] = "epd_partial"
    /\ ~exited
    /\ IF ~partial_supported
       THEN /\ mode' = [mode EXCEPT ![t] = "fallback"]
            /\ Goto(t, "epd_fallback")
            /\ UNCHANGED <<presented, outcome, failures, partials>>
       ELSE /\ \E ok \in BOOLEAN :
                /\ ok \/ failures < MaxFailures
                /\ IF ok
                   THEN /\ presented' = [image |-> image[t], mode |-> "partial"]
                        /\ outcome' = [outcome EXCEPT ![t] = "ok"]
                        /\ partials' = PartialsAfterPartial(partials)
                        /\ UNCHANGED failures
                   ELSE /\ failures' = failures + 1
                        /\ outcome' = [outcome EXCEPT ![t] = OnDriverFailure]
                        /\ UNCHANGED <<presented, partials>>
            /\ Goto(t, "db_ret")
            /\ UNCHANGED mode
    /\ UNCHANGED <<globals, update_locals, display_data, force, image, tmp, use_full,
                   events, client_history,
                   render_history, shutdown_history, last_fetch, service>>

\* The fallback epd.init(); epd.display(...) returns or raises.
EpdFallbackReturn(t) ==
    /\ pc[t] = "epd_fallback"
    /\ ~exited
    /\ \E ok \in BOOLEAN :
        /\ ok \/ failures < MaxFailures
        /\ IF ok
           THEN /\ presented' = [image |-> image[t], mode |-> "full"]
                /\ outcome' = [outcome EXCEPT ![t] = "ok"]
                /\ partials' = 0
                /\ UNCHANGED failures
           ELSE /\ failures' = failures + 1
                /\ outcome' = [outcome EXCEPT ![t] = OnDriverFailure]
                /\ UNCHANGED <<presented, partials>>
    /\ Goto(t, "db_ret")
    /\ UNCHANGED <<globals, update_locals, display_data, force, image, tmp, use_full,
                   mode, events, client_history,
                   render_history, shutdown_history, last_fetch, service>>

\* The steps of display_boxes
DisplayBoxesStep(t) ==
    \/ DbRender(t)
    \/ DbStore(t)
    \/ DbDecide(t)
    \/ EpdFullReturn(t)
    \/ EpdPartialReturn(t)
    \/ EpdFallbackReturn(t)

(***************************************************************************)
(* pusher_events.PusherListener._on_file_event and main.update_single_box, *)
(* run by a handler thread t                                               *)
(***************************************************************************)

\* An event with boxNumber k arrives: the callback update_single_box(k) is
\* called and starts fetch_box_status(k).
OnFileEvent(t, k) ==
    /\ pc[t] = "idle"
    /\ \A i, j \in 1..Len(HandlerOrder) :
           i < j /\ HandlerOrder[j] = t => pc[HandlerOrder[i]] # "idle"
    /\ ~exited
    /\ listening
    /\ events < MaxEvents
    /\ events' = events + 1
    /\ box_number' = [box_number EXCEPT ![t] = k]
    /\ Goto(t, "fetch")
    /\ UNCHANGED <<globals, new_data, pre_merge, display_locals, presented, failures,
                   history>>

\* new_data = fetch_box_status(box_number) returns a record; or it raises,
\* the except clause of update_single_box prints the error and the callback
\* returns.
FetchReturn(t) ==
    /\ pc[t] = "fetch"
    /\ ~exited
    /\ \/ /\ \E r \in FetchResults(box_number[t]) :
               /\ new_data' = [new_data EXCEPT ![t] = r]
               /\ last_fetch' = IF box_number[t] \in DOMAIN last_fetch
                                THEN [last_fetch EXCEPT ![box_number[t]] =
                                         [record |-> r, fetches |-> @.fetches + 1]]
                                ELSE last_fetch
          /\ Goto(t, "lock")
          /\ UNCHANGED box_number
       \/ /\ box_number[t] \in BadReplyBoxes
          /\ box_number' = [box_number EXCEPT ![t] = 0]
          /\ Goto(t, "idle")
          /\ UNCHANGED <<new_data, last_fetch>>
    /\ UNCHANGED <<globals, pre_merge, display_locals, presented, events, failures,
                   client_history, render_history, shutdown_history, partials, service>>

\* A merge that does not wait for the lock nor take it.
MergeWithoutLock(t) ==
    /\ pc[t] = "lock"
    /\ ~exited
    /\ pre_merge' = [pre_merge EXCEPT ![t] = current_box_data]
    /\ current_box_data' = SetItem(current_box_data, box_number[t], new_data[t])
    /\ Goto(t, "copy")
    /\ UNCHANGED <<epd, file_icon, partial_supported, full_refresh_counter, data_lock,
                   running, listening, exited, box_number, new_data, display_locals,
                   presented, events, failures, history>>

\* A with block that is entered without the assignment being made.
MergeSkipped(t) ==
    /\ pc[t] = "lock"
    /\ ~exited
    /\ data_lock = "free"
    /\ data_lock' = t
    /\ pre_merge' = [pre_merge EXCEPT ![t] = current_box_data]
    /\ Goto(t, "copy")
    /\ UNCHANGED <<epd, file_icon, partial_supported, full_refresh_counter,
                   current_box_data, running, listening, exited, box_number, new_data,
                   display_locals, presented, events, failures, history>>

\* with data_lock: current_box_data[box_number] = new_data
\* The lock is taken when it is free and the assignment follows at once.
Merge(t) ==
    /\ pc[t] = "lock"
    /\ ~exited
    /\ data_lock = "free"
    /\ data_lock' = t
    /\ pre_merge' = [pre_merge EXCEPT ![t] = current_box_data]
    /\ current_box_data' = SetItem(current_box_data, box_number[t], new_data[t])
    /\ Goto(t, "copy")
    /\ UNCHANGED <<epd, file_icon, partial_supported, full_refresh_counter, running,
                   listening, exited, box_number, new_data, display_locals, presented,
                   events, failures, history>>

\* A with block that is left only after display_boxes was entered.
CopyAndKeepLock(t) ==
    /\ pc[t] = "copy"
    /\ ~exited
    /\ EnterDisplayBoxes(t, current_box_data, FALSE)
    /\ UNCHANGED <<globals, update_locals, image, tmp, use_full, mode, outcome,
                   presented, events, failures, history>>

\* display_data = dict(current_box_data); the with block is left; then
\* display_boxes(display_data) is called.
CopyAndRelease(t) ==
    /\ pc[t] = "copy"
    /\ ~exited
    /\ data_lock' = "free"
    /\ EnterDisplayBoxes(t, current_box_data, FALSE)
    /\ UNCHANGED <<epd, file_icon, partial_supported, full_refresh_counter,
                   current_box_data, running, listening, exited, update_locals,
                   image, tmp, use_full, mode, outcome, presented, events, failures,
                   history>>

\* display_boxes returns, or raises and the except clause of update_single_box
\* catches it; update_single_box and the callback return.
HandlerReturn(t) ==
    /\ pc[t] = "db_ret"
    /\ ~exited
    /\ LeaveDisplayBoxes(t)
    /\ Goto(t, "idle")
    /\ UNCHANGED <<globals, update_locals, presented, events, failures, history>>

HandlerStep(t) ==
    \/ \E k \in EventBoxes : OnFileEvent(t, k)
    \/ FetchReturn(t)
    \/ Merge(t)
    \/ CopyAndRelease(t)
    \/ HandlerReturn(t)

(***************************************************************************)
(* main.main and main.signal_handler, run by the main thread               *)
(***************************************************************************)

\* The process exits: its threads end where they are and their frames are gone.
ProcessExit ==
    /\ exited' = TRUE
    /\ pc' = [t \in Threads |-> IF t \in ProgramThreads THEN "exit" ELSE pc[t]]
    /\ data_lock' = "free"
    /\ box_number' = [t \in Threads |-> 0]
    /\ new_data' = [t \in Threads |-> NoRecord]
    /\ pre_merge' = [t \in Threads |-> NoDict]
    /\ display_data' = [t \in Threads |-> NoDict]
    /\ force' = [t \in Threads |-> FALSE]
    /\ image' = [t \in Threads |-> NoImage]
    /\ tmp' = [t \in Threads |-> 0]
    /\ use_full' = [t \in Threads |-> FALSE]
    /\ mode' = [t \in Threads |-> "none"]
    /\ outcome' = [t \in Threads |-> "none"]

\* init_display(): the driver object is made and initialised, or the
\* constructor fails (epd stays None), or epd.init() fails (epd is set, the
\* fonts and the icon are not loaded).
MainInitDisplay ==
    /\ pc[MainThread] = "start"
    /\ ~exited
    /\ \E res \in {"ok", "no_icon", "ctor_failed", "init_failed"} :
        /\ res = "ok" \/ failures < MaxFailures
        /\ failures' = IF res = "ok" THEN failures ELSE failures + 1
        /\ epd' = IF res = "ctor_failed" THEN "none" ELSE "ready"
        /\ file_icon' = (res = "ok")
    /\ Goto(MainThread, "m_fetch")
    /\ UNCHANGED <<partial_supported, full_refresh_counter, current_box_data, data_lock,
                   running, listening, exited, update_locals, display_locals,
                   presented, events, history>>

\* box_data = fetch_all_boxes()
MainFetchAll ==
    /\ pc[MainThread] = "m_fetch"
    /\ ~exited
    /\ \E box_data \in InitialFetches :
        display_data' = [display_data EXCEPT ![MainThread] = box_data]
    /\ Goto(MainThread, "m_lock")
    /\ UNCHANGED <<globals, update_locals, force, image, tmp, use_full, mode, outcome,
                   presented, events, failures, history>>

\* with data_lock: (entry)
MainAcquireLock ==
    /\ pc[MainThread] = "m_lock"
    /\ ~exited
    /\ data_lock = "free"
    /\ data_lock' = MainThread
    /\ Goto(MainThread, "m_assign")
    /\ UNCHANGED <<epd, file_icon, partial_supported, full_refresh_counter,
                   current_box_data, running, listening, exited, update_locals,
                   display_locals, presented, events, failures, history>>

\* current_box_data = box_data; the with block is left; display_boxes(box_data)
MainAssign ==
    /\ pc[MainThread] = "m_assign"
    /\ ~exited
    /\ current_box_data' = display_data[MainThread]
    /\ data_lock' = "free"
    /\ EnterDisplayBoxes(MainThread, display_data[MainThread], FALSE)
    /\ UNCHANGED <<epd, file_icon, partial_supported, full_refresh_counter, running,
                   listening, exited, update_locals, image, tmp, use_full, mode,
                   outcome, presented, events, failures, history>>

\* display_boxes returned; or it raised, and main prints the error and returns.
MainAfterDisplay ==
    /\ pc[MainThread] = "db_ret"
    /\ ~exited
    /\ IF outcome[MainThread] \in {"not_initialized", "raised"}
       THEN /\ ProcessExit
       ELSE /\ Goto(MainThread, "m_connect")
            /\ LeaveDisplayBoxes(MainThread)
            /\ UNCHANGED <<exited, data_lock, update_locals>>
    /\ UNCHANGED <<epd, file_icon, partial_supported, full_refresh_counter,
                   current_box_data, running, listening, presented, events, failures,
                   history>>

\* pusher_listener = PusherListener(update_single_box); pusher_listener.connect()
MainConnect ==
    /\ pc[MainThread] = "m_connect"
    /\ ~exited
    /\ \E ok \in BOOLEAN : listening' = ok
    /\ Goto(MainThread, "loop")
    /\ UNCHANGED <<epd, file_icon, partial_supported, full_refresh_counter,
                   current_box_data, data_lock, running, exited, update_locals,
                   display_locals, presented, events, failures, history>>

\* A shutdown signal interrupts the main thread in its loop, or in a
\* signal_handler that is still running (Python runs the handler again on top
\* of it, and the sys.exit(0) of that run unwinds the interrupted one):
\* running = False, the listener is disconnected, and clear_display() begins.
SignalHandler ==
    /\ pc[MainThread] \in {"loop", "epd_clear", "epd_sleep"}
    /\ ~exited
    /\ signals > 0
    /\ signals' = signals - 1
    /\ running' = FALSE
    /\ listening' = FALSE
    /\ clears' = clears + 1
    /\ Goto(MainThread, "epd_clear")
    /\ UNCHANGED <<epd, file_icon, partial_supported, full_refresh_counter,
                   current_box_data, data_lock, exited, update_locals, display_locals,
                   presented, events, failures, client_history, render_history, sleeps,
                   partials, last_fetch, service>>

\* clear_display(): epd.display(white image) returns or raises (caught);
\* sleep_display() begins.
ClearReturn ==
    /\ pc[MainThread] = "epd_clear"
    /\ ~exited
    /\ \E ok \in BOOLEAN :
        /\ ok \/ failures < MaxFailures
        /\ IF ok
           THEN /\ presented' = [image |-> NoImage, mode |-> "clear"]
                /\ UNCHANGED failures
           ELSE /\ failures' = failures + 1
                /\ UNCHANGED presented
    /\ sleeps' = sleeps + 1
    /\ Goto(MainThread, "epd_sleep")
    /\ UNCHANGED <<globals, update_locals, display_locals, events, client_history,
                   render_history, signals, clears, partials, last_fetch, service>>

\* sleep_display(): epd.sleep() returns or raises (caught); sys.exit(0)
SleepReturn ==
    /\ pc[MainThread] = "epd_sleep"
    /\ ~exited
    /\ \E ok \in BOOLEAN :
        /\ ok \/ failures < MaxFailures
        /\ failures' = IF ok THEN failures ELSE failures + 1
    /\ ProcessExit
    /\ UNCHANGED <<epd, file_icon, partial_supported, full_refresh_counter,
                   current_box_data, running, listening, presented, events, history>>

MainStep ==
    \/ MainInitDisplay
    \/ MainFetchAll
    \/ MainAcquireLock
    \/ MainAssign
    \/ MainAfterDisplay
    \/ MainConnect
    \/ SignalHandler
    \/ ClearReturn
    \/ SleepReturn

(***************************************************************************)
(* A sequential client of the display module: it calls display_boxes and   *)
(* force_full_refresh one after the other                                  *)
(***************************************************************************)

\* display.py:329-334, the test data of the module
ApiData == [b \in Boxes |-> IF b = 1 THEN RecEmpty ELSE IF b = 4 THEN RecError ELSE RecFile]

\* A call is plain when nothing but the counter decides its refresh mode.
PlainCall(t) == ~force[t] /\ partial_supported /\ outcome[t] = "ok"

\* display_boxes(box_data, force_full_refresh = f) is called.
ApiDisplayBoxes(f) ==
    /\ pc[ApiThread] = "idle"
    /\ EnterDisplayBoxes(ApiThread, ApiData, f)
    /\ entry_counter' = full_refresh_counter
    /\ since_force' = IF since_force = 0 /\ ~f THEN 1
                      ELSE IF since_force = 1 /\ ~f THEN 2
                      ELSE -1
    /\ UNCHANGED <<globals, update_locals, image, tmp, use_full, mode, outcome,
                   presented, events, failures, streak, first_forced_ok, prev_failed,
                   render_history, shutdown_history, partials, last_fetch, service>>

\* display_boxes returns to the client.
ApiReturn ==
    /\ pc[ApiThread] = "db_ret"
    /\ streak' = IF streak >= 0 /\ PlainCall(ApiThread)
                    /\ streak + 1 < 2 * FULL_REFRESH_INTERVAL - 1
                 THEN streak + 1
                 ELSE IF full_refresh_counter = 0 THEN 0 ELSE -1
    /\ first_forced_ok' = IF since_force = 1
                          THEN outcome[ApiThread] = "ok"
                          ELSE first_forced_ok
    /\ prev_failed' = (outcome[ApiThread] \in {"caught", "raised"})
    /\ LeaveDisplayBoxes(ApiThread)
    /\ Goto(ApiThread, "idle")
    /\ UNCHANGED <<globals, update_locals, presented, events, failures, entry_counter,
                   since_force, render_history, shutdown_history, partials, last_fetch,
                   service>>

\* A force_full_refresh() that only brings the counter to the step before the threshold.
ForcedCounterShort == FULL_REFRESH_INTERVAL - 2

\* full_refresh_counter = FULL_REFRESH_INTERVAL
ForcedCounter == FULL_REFRESH_INTERVAL

\* force_full_refresh()
ApiForceFullRefresh ==
    /\ pc[ApiThread] = "idle"
    /\ full_refresh_counter' = ForcedCounter
    /\ since_force' = 0
    /\ streak' = -1
    /\ first_forced_ok' = FALSE
    /\ UNCHANGED <<pc, epd, file_icon, partial_supported, current_box_data, data_lock,
                   running, listening, exited, update_locals, display_locals, presented,
                   events, failures, entry_counter, prev_failed, render_history,
                   shutdown_history, partials, last_fetch, service>>

(***************************************************************************)
(* Initial states and specifications                                       *)
(***************************************************************************)

\* Counter values of a program that has handled earlier notifications one
\* after the other and waits in its main loop.
WarmCounters == {FULL_REFRESH_INTERVAL - 2}

InitFrames ==
    /\ box_number = [t \in Threads |-> 0]
    /\ new_data = [t \in Threads |-> NoRecord]
    /\ pre_merge = [t \in Threads |-> NoDict]
    /\ force = [t \in Threads |-> FALSE]
    /\ image = [t \in Threads |-> NoImage]
    /\ tmp = [t \in Threads |-> 0]
    /\ use_full = [t \in Threads |-> FALSE]
    /\ mode = [t \in Threads |-> "none"]
    /\ outcome = [t \in Threads |-> "none"]
    /\ presented = [image |-> NoImage, mode |-> "none"]
    /\ failures = 0
    /\ entry_counter = 0
    /\ streak = 0
    /\ since_force = -1
    /\ first_forced_ok = FALSE
    /\ prev_failed = FALSE
    /\ first_image = NoImage
    /\ renders = 0
    /\ clears = 0
    /\ sleeps = 0
    /\ fetch_call = NoRecord
    /\ attempt_log = <<>>
    /\ fetch_returned = NotReturned
    /\ results = NoDict
    /\ boot_steps = <<>>
    /\ boot_outcomes = <<>>
    /\ boot_returned = NotReturned
    /\ last_event = NoRecord
    /\ callback_calls = <<>>
    /\ escaped = FALSE
    /\ delivered = 0
    /\ printed = [printed |-> FALSE]

InitLocals ==
    /\ InitFrames
    /\ display_data = [t \in Threads |-> NoDict]

\* The modules are loaded and main() starts (main.py:16-19, display.py:27-34).
InitCold ==
    /\ pc = [t \in Threads |-> IF t = MainThread THEN "start" ELSE "idle"]
    /\ epd = "none"
    /\ file_icon = FALSE
    /\ full_refresh_counter = 0
    /\ current_box_data = NoDict
    /\ listening = FALSE

\* main() waits in its loop after earlier notifications were handled.
InitWarm ==
    /\ partial_supported
    /\ pc = [t \in Threads |-> IF t = MainThread THEN "loop" ELSE "idle"]
    /\ epd = "ready"
    /\ file_icon = TRUE
    /\ full_refresh_counter \in WarmCounters
    /\ current_box_data = [b \in Boxes |-> RecEmpty]
    /\ listening = TRUE

\* The program with MaxEvents notifications and one shutdown signal to come.
Init ==
    /\ InitLocals
    /\ events = 0
    /\ signals = 1
    /\ partial_supported \in BOOLEAN
    /\ data_lock = "free"
    /\ running = TRUE
    /\ exited = FALSE
    /\ InitCold \/ InitWarm
    /\ partials = full_refresh_counter
    /\ on_box_update = "update_single_box"
    /\ last_fetch = NoDict

Next ==
    \/ MainStep
    \/ \E t \in Handlers : HandlerStep(t)
    \/ \E t \in ProgramThreads : DisplayBoxesStep(t)

Spec == Init /\ [][Next]_vars

\* The same program, with the fetches made for its notifications recorded
\* box by box.
InitFetchOrder ==
    /\ InitLocals
    /\ events = 0
    /\ signals = 1
    /\ partial_supported \in BOOLEAN
    /\ data_lock = "free"
    /\ running = TRUE
    /\ exited = FALSE
    /\ InitCold \/ InitWarm
    /\ partials = full_refresh_counter
    /\ on_box_update = "update_single_box"
    /\ last_fetch = [b \in EventBoxes |-> [record |-> NoRecord, fetches |-> 0]]

SpecFetchOrder == InitFetchOrder /\ [][Next]_vars

\* The program with its last notification and MaxSignals shutdown signals to
\* come; the warm program is one call before its next full refresh.
InitShutdown ==
    /\ InitLocals
    /\ events = MaxEvents - 1
    /\ signals = MaxSignals
    /\ partial_supported \in BOOLEAN
    /\ data_lock = "free"
    /\ running = TRUE
    /\ exited = FALSE
    /\ \/ InitCold
       \/ /\ partial_supported
          /\ pc = [t \in Threads |-> IF t = MainThread THEN "loop" ELSE "idle"]
          /\ epd = "ready"
          /\ file_icon = TRUE
          /\ full_refresh_counter = FULL_REFRESH_INTERVAL - 1
          /\ current_box_data = [b \in Boxes |-> RecEmpty]
          /\ listening = TRUE
    /\ partials = full_refresh_counter
    /\ on_box_update = "update_single_box"
    /\ last_fetch = NoDict

SpecShutdown == InitShutdown /\ [][Next]_vars

\* The display module after init_display(), used by the sequential client.
InitSched ==
    /\ InitLocals
    /\ events = 0
    /\ signals = 0
    /\ partial_supported \in BOOLEAN
    /\ data_lock = "free"
    /\ running = TRUE
    /\ exited = FALSE
    /\ pc = [t \in Threads |-> "idle"]
    /\ epd = "ready"
    /\ file_icon = TRUE
    /\ full_refresh_counter = 0
    /\ current_box_data = NoDict
    /\ listening = FALSE
    /\ partials = 0
    /\ last_fetch = NoDict
    /\ on_box_update = "none"

NextSched ==
    \/ \E f \in BOOLEAN : ApiDisplayBoxes(f)
    \/ ApiForceFullRefresh
    \/ DisplayBoxesStep(ApiThread)
    \/ ApiReturn

SpecSched == InitSched /\ [][NextSched]_vars

(***************************************************************************)
(* A client that renders: it calls create_layout_image on a snapshot it    *)
(* holds, as display_boxes does at display.py:244 (SpecRender)             *)
(***************************************************************************)

\* Number of create_layout_image calls the client makes on its snapshot.
MaxRenders == 2

Message == <<"t", "i", "m", "e", "o", "u", "t">>

\* Records that carry fields left over from another state, or lack fields.
StaleRecords ==
    { [empty |-> FALSE, name |-> RecFile.name, type |-> RecFile.type,
       size |-> RecFile.size, error |-> Message],
      [empty |-> TRUE, name |-> RecFile.name, type |-> RecFile.type,
       size |-> RecFile.size],
      [error |-> Message],
      [name |-> RecFile.name, size |-> RecFile.size],
      [empty |-> FALSE] }

RenderRecords == {RecEmpty, RecFile, RecError} \cup StaleRecords

\* Sizes: absent, 0, 500 and the numbers of one to five base-1024 digits
\* over a few digit values (below 2^50).
SizeDigits == {0, 1, 256, 512, 1023}
SizeLengths == 1..5
SizeInputs ==
    {None, <<0>>, <<500>>}
        \cup {ds \in UNION {[1..n -> SizeDigits] : n \in SizeLengths} : ds[1] # 0}

\* Snapshots with any of the four entries missing, and the test snapshots.
RecordSnapshots ==
    {[b \in D |-> r] : D \in SUBSET Boxes, r \in RenderRecords}
        \cup InitialFetches \cup {ApiData}

\* Snapshots of one file of each size.
SizeSnapshots ==
    {[b \in {1} |-> [empty |-> FALSE, name |-> RecFile.name, type |-> RecFile.type,
                      size |-> sz]] : sz \in SizeInputs}

\* Text of n characters, none of them a dot.
Text(n) ==
    [i \in 1..n |-> <<"a", "b", "c", "d", "e", "f", "g", "h", "i", "j">>[((i - 1) % 10) + 1]]

\* Snapshots of one file, or one failed fetch, with a name or a message of
\* each length: around the 27 and 30 of draw_box, and 50.
TextSnapshots ==
    UNION { { [b \in {1} |-> [empty |-> FALSE, name |-> Text(n), type |-> RecFile.type,
                               size |-> RecFile.size]],
              [b \in {1} |-> [empty |-> TRUE, error |-> Text(n)]] } :
            n \in {0, 1, 26, 27, 28, 29, 30, 31, 32, 33, 34, 50} }

\* image = create_layout_image(box_data)
ApiRender ==
    /\ pc[ApiThread] = "idle"
    /\ renders < MaxRenders
    /\ renders' = renders + 1
    /\ first_image' = image[ApiThread]
    /\ image' = [image EXCEPT
                    ![ApiThread] = create_layout_image(display_data[ApiThread], file_icon)]
    /\ UNCHANGED <<pc, globals, update_locals, display_data, force, tmp, use_full, mode,
                   outcome, presented, events, failures, client_history,
                   shutdown_history, partials, last_fetch, service>>

\* print_box_status(box_data) on the snapshot the client holds.
ApiPrintBoxStatus ==
    /\ pc[ApiThread] = "idle"
    /\ ~printed.printed
    /\ printed' = [printed |-> TRUE, boxes |-> print_box_status(display_data[ApiThread])]
    /\ UNCHANGED <<pc, globals, update_locals, display_locals, presented, events,
                   failures, client_history, render_history, shutdown_history, partials,
                   last_fetch, fetch_locals, boot_locals, listener_locals>>

\* The display module before or after init_display(), and a client that
\* holds a snapshot.
InitRender ==
    /\ InitFrames
    /\ events = 0
    /\ signals = 0
    /\ partial_supported = TRUE
    /\ data_lock = "free"
    /\ running = TRUE
    /\ exited = FALSE
    /\ pc = [t \in Threads |-> "idle"]
    /\ full_refresh_counter = 0
    /\ current_box_data = NoDict
    /\ listening = FALSE
    /\ \/ /\ epd = "none"
          /\ file_icon = FALSE
          /\ \E d \in RecordSnapshots :
                display_data = [t \in Threads |-> IF t = ApiThread THEN d ELSE NoDict]
       \/ /\ epd = "ready"
          /\ file_icon \in BOOLEAN
          /\ \E d \in RecordSnapshots :
                display_data = [t \in Threads |-> IF t = ApiThread THEN d ELSE NoDict]
       \/ /\ epd = "ready"
          /\ file_icon = TRUE
          /\ \E d \in SizeSnapshots \cup TextSnapshots :
                display_data = [t \in Threads |-> IF t = ApiThread THEN d ELSE NoDict]
    /\ partials = 0
    /\ last_fetch = NoDict
    /\ on_box_update = "none"

NextRender ==
    \/ ApiRender
    \/ ApiForceFullRefresh
    \/ ApiPrintBoxStatus

SpecRender == InitRender /\ [][NextRender]_vars

(***************************************************************************)
(* api.fetch_box_status and api.fetch_all_boxes, and a client that calls   *)
(* fetch_box_status(box_number, retries, delay) (SpecFetch)                *)
(***************************************************************************)

\* api.py:48  retries: int = 5, delay: int = 3
DefaultRetries == 5
DefaultDelay == 3

\* Largest retries argument of the client.
MaxRetries == 3

\* JSON objects the server can reply with: an empty box, a file, an object
\* without fields, a file without the "empty" field.
ReplyObjects ==
    { [empty |-> TRUE],
      [empty |-> FALSE, name |-> RecFile.name, size |-> RecFile.size],
      [empty |-> FALSE],
      [name |-> RecFile.name, size |-> RecFile.size] }

\* filename.split('.')[-1] when '.' is in filename
RECURSIVE Extension(_)
Extension(filename) ==
    IF filename = <<>> \/ filename[Len(filename)] = "."
    THEN <<>>
    ELSE Extension(SubSeq(filename, 1, Len(filename) - 1)) \o <<filename[Len(filename)]>>

\* mimetypes.guess_type and the friendly names made from it, for the
\* extensions that occur.
FriendlyTypes ==
    { <<<<"j", "p", "g">>, "Image (JPEG)">>,
      <<<<"t", "x", "t">>, "Text (PLAIN)">>,
      <<<<"p", "d", "f">>, "PDF">>,
      <<<<"z", "i", "p">>, "Archive">> }

\* api.get_file_type(filename); an extension that mimetypes does not know is
\* written ".EXT".
get_file_type(filename) ==
    IF filename = <<>>
    THEN "Unknown"
    ELSE LET dotted == \E i \in 1..Len(filename) : filename[i] = "."
         IN  IF dotted /\ \E ft \in FriendlyTypes : ft[1] = Extension(filename)
             THEN (CHOOSE ft \in FriendlyTypes : ft[1] = Extension(filename))[2]
             ELSE IF dotted THEN ".EXT" ELSE "Unknown"

\* data.setdefault("empty", True); then data["type"] = get_file_type(data["name"])
\* if not data.get("empty") and data.get("name")
Completed(data) ==
    LET d == IF "empty" \in DOMAIN data THEN data ELSE SetItem(data, "empty", TRUE)
    IN  IF ~d["empty"] /\ "name" \in DOMAIN d /\ d["name"] # <<>>
        THEN SetItem(d, "type", get_file_type(d["name"]))
        ELSE d

\* return {"empty": True, "error": str(e)}
ErrorRecord == [empty |-> TRUE, error |-> Message]

\* Values of fetch_returned.
Returned(value) == [returned |-> TRUE, value |-> value]
Raised(exception) == [returned |-> TRUE, raised |-> exception]

\* fetch_box_status(box_num, retries, delay) is entered: for attempt in
\* range(retries) begins, or has nothing to run and the function ends
\* without a return statement.
EnterFetchBoxStatus(box_num, retries, delay, caller) ==
    /\ fetch_call' = [box_number |-> box_num, retries |-> retries, delay |-> delay,
                      attempt |-> 0, caller |-> caller]
    /\ attempt_log' = <<>>
    /\ IF retries > 0
       THEN /\ fetch_returned' = NotReturned
            /\ Goto(ApiThread, "fb_attempt")
       ELSE /\ fetch_returned' = [returned |-> TRUE, none |-> TRUE]
            /\ Goto(ApiThread, "fb_return")

\* not (attempt < retries - 1): the attempt was the last one
LastAttempt(attempt, retries) == attempt >= retries - 1

\* One pass of the loop body: requests.get, raise_for_status, response.json,
\* setdefault, get_file_type and return; or a RequestException and the
\* except clause up to time.sleep or to the return of the error record; or a
\* reply that is not a JSON object, on which data.setdefault raises
\* AttributeError, which no clause of fetch_box_status catches.
FbAttempt ==
    /\ pc[ApiThread] = "fb_attempt"
    /\ attempt_log' = Append(attempt_log, [op |-> "get"])
    /\ \/ \E data \in ReplyObjects :
            /\ fetch_returned' = Returned(Completed(data))
            /\ Goto(ApiThread, "fb_return")
       \/ IF LastAttempt(fetch_call.attempt, fetch_call.retries)
          THEN /\ fetch_returned' = Returned(ErrorRecord)
               /\ Goto(ApiThread, "fb_return")
          ELSE /\ Goto(ApiThread, "fb_sleep")
               /\ UNCHANGED fetch_returned
       \/ /\ fetch_returned' = Raised("AttributeError")
          /\ Goto(ApiThread, "fb_return")
    /\ UNCHANGED <<globals, update_locals, display_locals, presented, events, failures,
                   client_history, render_history, shutdown_history, partials,
                   last_fetch, fetch_call, results, boot_locals, listener_locals,
                   printed>>

\* time.sleep(delay), and the loop goes on to the next attempt.
FbSleep ==
    /\ pc[ApiThread] = "fb_sleep"
    /\ attempt_log' = Append(attempt_log, [op |-> "sleep", seconds |-> fetch_call.delay])
    /\ fetch_call' = [fetch_call EXCEPT !.attempt = @ + 1]
    /\ Goto(ApiThread, "fb_attempt")
    /\ UNCHANGED <<globals, update_locals, display_locals, presented, events, failures,
                   client_history, render_history, shutdown_history, partials,
                   last_fetch, fetch_returned, results, boot_locals, listener_locals,
                   printed>>

\* The client calls fetch_box_status(box_num, retries, delay).
ApiFetchBoxStatus(box_num, retries, delay) ==
    /\ pc[ApiThread] = "idle"
    /\ EnterFetchBoxStatus(box_num, retries, delay, "client")
    /\ UNCHANGED <<globals, update_locals, display_locals, presented, events, failures,
                   client_history, render_history, shutdown_history, partials,
                   last_fetch, results, boot_locals, listener_locals, printed>>

\* The call returns to the client, or the exception reaches it.
ApiFetchReturn ==
    /\ pc[ApiThread] = "fb_return"
    /\ fetch_call.caller = "client"
    /\ fetch_call' = NoRecord
    /\ Goto(ApiThread, "idle")
    /\ UNCHANGED <<globals, update_locals, display_locals, presented, events, failures,
                   client_history, render_history, shutdown_history, partials,
                   last_fetch, attempt_log, fetch_returned, results, boot_locals,
                   listener_locals, printed>>

\* The api module is loaded and the client has made no call.
InitFetch ==
    /\ InitLocals
    /\ events = 0
    /\ signals = 0
    /\ partial_supported = TRUE
    /\ data_lock = "free"
    /\ running = TRUE
    /\ exited = FALSE
    /\ pc = [t \in Threads |-> "idle"]
    /\ epd = "none"
    /\ file_icon = FALSE
    /\ full_refresh_counter = 0
    /\ current_box_data = NoDict
    /\ listening = FALSE
    /\ partials = 0
    /\ last_fetch = NoDict
    /\ on_box_update = "none"

NextFetch ==
    \/ \E box_num \in Boxes, retries \in 1..MaxRetries, delay \in {0, DefaultDelay} :
            ApiFetchBoxStatus(box_num, retries, delay)
    \/ FbAttempt
    \/ FbSleep
    \/ ApiFetchReturn

SpecFetch == InitFetch /\ [][NextFetch]_vars

(***************************************************************************)
(* boot.boot_sequence with api.fetch_all_boxes (SpecBoot)                  *)
(***************************************************************************)

\* boot_sequence's steps, in the order of its docstring.
StepOrder == <<"display", "wifi", "connect", "fetch">>

\* api.py:84  boxes = [1, 2, 3, 4]
BoxOrder == <<1, 2, 3, 4>>

\* The values boot_sequence returns: (box_data, pusher_listener),
\* ({}, None) and (None, None).
BootData(box_data) ==
    [returned |-> TRUE, box_data |-> [dict |-> box_data], listener |-> "listener"]
BootNoDisplay == [returned |-> TRUE, box_data |-> [dict |-> NoDict], listener |-> "None"]
BootFailure == [returned |-> TRUE, box_data |-> [none |-> TRUE], listener |-> "None"]

\* display_centered_message(message): a full refresh that shows the message,
\* or a driver failure that it catches.
ShowMessage(message) ==
    \E shown \in BOOLEAN :
        presented' = IF shown THEN [image |-> [message |-> message], mode |-> "full"]
                     ELSE presented

\* Step 1: init_display() and the first message.  init_display raises when
\* the driver library is missing; it catches a failure of EPD(), which leaves
\* epd None, and a failure of epd.init() or epd.Clear(), which leaves epd set.
\* display_centered_message raises RuntimeError when epd is None.
BootInitDisplay ==
    /\ pc[ApiThread] = "boot_display"
    /\ \E res \in {"ok", "no_icon", "no_library", "ctor_failed", "init_failed"} :
        /\ boot_steps' = Append(boot_steps, "display")
        /\ boot_outcomes' = Append(boot_outcomes, res)
        /\ epd' = IF res \in {"no_library", "ctor_failed"} THEN "none" ELSE "ready"
        /\ file_icon' = (res = "ok")
        /\ IF res \in {"no_library", "ctor_failed"}
           THEN /\ boot_returned' = BootNoDisplay
                /\ Goto(ApiThread, "boot_done")
                /\ UNCHANGED presented
           ELSE /\ ShowMessage("Booting system...")
                /\ Goto(ApiThread, "boot_wifi")
                /\ UNCHANGED boot_returned
    /\ UNCHANGED <<partial_supported, full_refresh_counter, current_box_data, data_lock,
                   running, listening, exited, update_locals, display_locals, events,
                   failures, client_history, render_history, shutdown_history, partials,
                   last_fetch, fetch_locals, listener_locals, printed>>

\* Step 2: is_wifi_connected()
BootCheckWifi ==
    /\ pc[ApiThread] = "boot_wifi"
    /\ boot_steps' = Append(boot_steps, "wifi")
    /\ \E connected \in BOOLEAN :
        /\ boot_outcomes' = Append(boot_outcomes, IF connected THEN "ok" ELSE "failed")
        /\ IF connected
           THEN /\ ShowMessage("Checking Wi-Fi...")
                /\ Goto(ApiThread, "boot_connect")
                /\ UNCHANGED boot_returned
           ELSE /\ ShowMessage("No Wi-Fi: Please restart")
                /\ boot_returned' = BootFailure
                /\ Goto(ApiThread, "boot_done")
    /\ UNCHANGED <<globals, update_locals, display_locals, events, failures,
                   client_history, render_history, shutdown_history, partials,
                   last_fetch, fetch_locals, listener_locals, printed>>

\* Step 3: PusherListener(on_box_update_callback=None).connect()
BootConnect ==
    /\ pc[ApiThread] = "boot_connect"
    /\ boot_steps' = Append(boot_steps, "connect")
    /\ on_box_update' = "none"
    /\ \E connected \in BOOLEAN :
        /\ boot_outcomes' = Append(boot_outcomes, IF connected THEN "ok" ELSE "failed")
        /\ listening' = connected
        /\ IF connected
           THEN /\ ShowMessage("WebSocket connected")
                /\ Goto(ApiThread, "boot_fetch")
                /\ UNCHANGED boot_returned
           ELSE /\ ShowMessage("WebSocket failed: Please restart")
                /\ boot_returned' = BootFailure
                /\ Goto(ApiThread, "boot_done")
    /\ UNCHANGED <<epd, file_icon, partial_supported, full_refresh_counter,
                   current_box_data, data_lock, running, exited, update_locals,
                   display_locals, events, failures, client_history, render_history,
                   shutdown_history, partials, last_fetch, fetch_locals, last_event,
                   callback_calls, escaped, delivered, printed>>

\* Step 4 begins: fetch_all_boxes() sets results = {} and fetches the first box.
BootFetch ==
    /\ pc[ApiThread] = "boot_fetch"
    /\ boot_steps' = Append(boot_steps, "fetch")
    /\ ShowMessage("Fetching data...")
    /\ results' = NoDict
    /\ EnterFetchBoxStatus(BoxOrder[1], DefaultRetries, DefaultDelay, "fetch_all_boxes")
    /\ UNCHANGED <<globals, update_locals, display_locals, events, failures,
                   client_history, render_history, shutdown_history, partials,
                   last_fetch, boot_outcomes, boot_returned, listener_locals, printed>>

\* results[box_num] = fetch_box_status(box_num), and then the next box, or
\* return results and the end of step 4; an exception from fetch_box_status
\* passes through fetch_all_boxes to the except clause of step 4.
FaStore ==
    /\ pc[ApiThread] = "fb_return"
    /\ fetch_call.caller = "fetch_all_boxes"
    /\ IF "value" \notin DOMAIN fetch_returned
       THEN /\ ShowMessage("Data fetch failed: Please restart")
            /\ boot_outcomes' = Append(boot_outcomes, "raised")
            /\ boot_returned' = BootFailure
            /\ fetch_call' = NoRecord
            /\ Goto(ApiThread, "boot_done")
            /\ UNCHANGED <<results, attempt_log, fetch_returned>>
       ELSE LET stored == SetItem(results, fetch_call.box_number, fetch_returned.value)
                next == Len(results) + 2
            IN  /\ results' = stored
                /\ IF next <= Len(BoxOrder)
                   THEN /\ EnterFetchBoxStatus(BoxOrder[next], DefaultRetries,
                                               DefaultDelay, "fetch_all_boxes")
                        /\ UNCHANGED <<presented, boot_outcomes, boot_returned>>
                   ELSE /\ ShowMessage("Boot complete!")
                        /\ boot_outcomes' = Append(boot_outcomes, "ok")
                        /\ boot_returned' = BootData(stored)
                        /\ fetch_call' = NoRecord
                        /\ Goto(ApiThread, "boot_done")
                        /\ UNCHANGED <<attempt_log, fetch_returned>>
    /\ UNCHANGED <<globals, update_locals, display_locals, events, failures,
                   client_history, render_history, shutdown_history, partials,
                   last_fetch, boot_steps, listener_locals, printed>>

\* The modules are loaded and boot_sequence() is called.
InitBoot ==
    /\ InitLocals
    /\ events = 0
    /\ signals = 0
    /\ partial_supported = TRUE
    /\ data_lock = "free"
    /\ running = TRUE
    /\ exited = FALSE
    /\ pc = [t \in Threads |-> IF t = ApiThread THEN "boot_display" ELSE "idle"]
    /\ epd = "none"
    /\ file_icon = FALSE
    /\ full_refresh_counter = 0
    /\ current_box_data = NoDict
    /\ listening = FALSE
    /\ partials = 0
    /\ last_fetch = NoDict
    /\ on_box_update = "none"

NextBoot ==
    \/ BootInitDisplay
    \/ BootCheckWifi
    \/ BootConnect
    \/ BootFetch
    \/ FbAttempt
    \/ FbSleep
    \/ FaStore

SpecBoot == InitBoot /\ [][NextBoot]_vars

(***************************************************************************)
(* pusher_events.PusherListener._on_file_event on the data of an event     *)
(* (SpecEvents)                                                            *)
(***************************************************************************)

\* Number of events given to the listener in one run.
MaxPayloads == 2

\* pusher_events.py:73-75: the events bound to _on_file_event, once each.
BoundEvents == {"file-uploaded", "file-deleted"}

\* JSON values of the boxNumber field: integers, strings, a float, null.
BoxNumberValues ==
    {[int |-> n] : n \in {-1, 0, 1, 4, 12}}
        \cup {[str |-> s] : s \in { <<"2">>, <<" ", "3", " ">>, <<"0">>, <<"1", "0">>,
                                    <<>>, <<" ">>, <<"a", "b", "c">>, <<"2", "a">> }}
        \cup {[float |-> <<"2", ".", "5">>], [null |-> TRUE]}

\* JSON values of an event: objects with and without boxNumber, and a list.
JsonValues ==
    {[object |-> [boxNumber |-> v]] : v \in BoxNumberValues}
        \cup {[object |-> [boxNumber |-> v, fileName |-> [str |-> <<"a">>]]] :
                v \in {[int |-> 1]}}
        \cup {[object |-> [fileName |-> [str |-> <<"a">>]]], [list |-> TRUE]}

\* The data pysher hands to the handler: a string, JSON or not, or a value
\* that is parsed already.
EventData ==
    {[str |-> TRUE, text |-> [json |-> v]] : v \in JsonValues}
        \cup {[str |-> TRUE, text |-> [invalid |-> TRUE]]}
        \cup {[str |-> FALSE, value |-> v] : v \in JsonValues}

\* json.loads(data)
json_loads(text) ==
    IF "json" \in DOMAIN text
    THEN [value |-> text.json]
    ELSE [raised |-> "JSONDecodeError"]

\* data.get('boxNumber'): None when the key is absent; a value that is not
\* a dict has no get.
GetBoxNumber(value) ==
    IF "object" \in DOMAIN value
    THEN [value |-> Get(value.object, "boxNumber", [null |-> TRUE])]
    ELSE [raised |-> "AttributeError"]

\* if box_number: the truth value of a JSON value
Truthy(v) ==
    IF "int" \in DOMAIN v THEN v.int # 0
    ELSE IF "str" \in DOMAIN v THEN v.str # <<>>
    ELSE IF "float" \in DOMAIN v THEN TRUE
    ELSE FALSE

DigitChars == <<"0", "1", "2", "3", "4", "5", "6", "7", "8", "9">>

\* str(n) for an integer n
RECURSIVE Digits(_)
Digits(n) ==
    IF n < 10 THEN <<DigitChars[n + 1]>> ELSE Digits(n \div 10) \o <<DigitChars[(n % 10) + 1]>>

\* str(box_number)
Str(v) ==
    IF "int" \in DOMAIN v
    THEN IF v.int < 0 THEN <<"-">> \o Digits(0 - v.int) ELSE Digits(v.int)
    ELSE IF "str" \in DOMAIN v THEN v.str
    ELSE v.float

\* s.strip()
RECURSIVE Strip(_)
Strip(s) ==
    IF s = <<>> THEN s
    ELSE IF Head(s) = " " THEN Strip(Tail(s))
    ELSE IF s[Len(s)] = " " THEN Strip(SubSeq(s, 1, Len(s) - 1))
    ELSE s

\* The number written by decimal digits.
RECURSIVE Decimal(_)
Decimal(s) ==
    IF s = <<>>
    THEN 0
    ELSE 10 * Decimal(SubSeq(s, 1, Len(s) - 1))
            + (CHOOSE i \in 1..10 : DigitChars[i] = s[Len(s)]) - 1

IsDigits(s) == s # <<>> /\ \A i \in 1..Len(s) : \E j \in 1..10 : DigitChars[j] = s[i]

\* int(s): decimal digits with an optional sign, or ValueError
IntOf(s) ==
    IF s # <<>> /\ Head(s) \in {"+", "-"} /\ IsDigits(Tail(s))
    THEN [value |-> IF Head(s) = "-" THEN 0 - Decimal(Tail(s)) ELSE Decimal(Tail(s))]
    ELSE IF IsDigits(s) THEN [value |-> Decimal(s)]
    ELSE [raised |-> "ValueError"]

\* An outer except clause for ValueError alone.
CatchesValueErrorOnly(exception) == exception = "ValueError"

\* except Exception as e: every exception of the handler's body is caught
CatchesException(exception) ==
    exception \in {"AttributeError", "ValueError", "TypeError", "CallbackError"}

\* How a run of the handler ends: the callback calls it made, and whether an
\* exception left it.
HandlerOutcome(calls, exception) ==
    [calls |-> calls, escaped |-> exception # "none" /\ ~CatchesException(exception)]

\* _on_file_event(data) of a listener whose on_box_update is callback
on_file_event(data, callback) ==
    LET parsed == IF data.str THEN json_loads(data.text) ELSE [value |-> data.value]
    IN  IF "raised" \in DOMAIN parsed
        THEN HandlerOutcome(<<>>, "none")
        ELSE LET got == GetBoxNumber(parsed.value)
             IN  IF "raised" \in DOMAIN got
                 THEN HandlerOutcome(<<>>, got.raised)
                 ELSE IF ~Truthy(got.value)
                 THEN HandlerOutcome(<<>>, "none")
                 ELSE LET box_num == IntOf(Strip(Str(got.value)))
                      IN  IF "raised" \in DOMAIN box_num
                          THEN HandlerOutcome(<<>>, box_num.raised)
                          ELSE IF callback = "none"
                          THEN HandlerOutcome(<<>>, "none")
                          ELSE IF callback = "raising"
                          THEN HandlerOutcome(<<box_num.value>>, "CallbackError")
                          ELSE HandlerOutcome(<<box_num.value>>, "none")

\* A bound event arrives with its data and the handler runs to its end.
ListenerEvent(name, data) ==
    /\ delivered < MaxPayloads
    /\ name \in BoundEvents
    /\ delivered' = delivered + 1
    /\ last_event' = [name |-> name, data |-> data]
    /\ LET run == on_file_event(data, on_box_update)
       IN  /\ callback_calls' = run.calls
           /\ escaped' = run.escaped
    /\ UNCHANGED <<pc, globals, update_locals, display_locals, presented, events,
                   failures, client_history, render_history, shutdown_history, partials,
                   last_fetch, fetch_locals, boot_locals, on_box_update, printed>>

\* A connected listener: made by main with update_single_box, by
\* boot_sequence with no callback, or with a callback that raises.
InitEvents ==
    /\ InitLocals
    /\ events = 0
    /\ signals = 0
    /\ partial_supported = TRUE
    /\ data_lock = "free"
    /\ running = TRUE
    /\ exited = FALSE
    /\ pc = [t \in Threads |-> "idle"]
    /\ epd = "none"
    /\ file_icon = FALSE
    /\ full_refresh_counter = 0
    /\ current_box_data = NoDict
    /\ listening = TRUE
    /\ partials = 0
    /\ last_fetch = NoDict
    /\ on_box_update \in {"none", "update_single_box", "raising"}

NextEvents ==
    \E name \in BoundEvents, data \in EventData : ListenerEvent(name, data)

SpecEvents == InitEvents /\ [][NextEvents]_vars

(***************************************************************************)
(* The refresh scheduler under a sequential client (SpecSched)             *)
(***************************************************************************)

\* C1: from counter 0, in consecutive display_boxes calls without forcing, with
\* partial mode supported and the driver succeeding, calls 1..T-1 are partial
\* refreshes, call T is a full refresh that resets the counter to 0, and calls
\* T+1..2T-1 are partial again.
C1_FullEveryInterval ==
    (pc[ApiThread] = "db_ret" /\ streak >= 0 /\ PlainCall(ApiThread)) =>
        LET n == streak + 1
        IN  /\ n < FULL_REFRESH_INTERVAL =>
                mode[ApiThread] = "partial" /\ full_refresh_counter = n
            /\ n = FULL_REFRESH_INTERVAL =>
                mode[ApiThread] = "full" /\ full_refresh_counter = 0
            /\ n > FULL_REFRESH_INTERVAL =>
                /\ n <= 2 * FULL_REFRESH_INTERVAL - 1
                /\ mode[ApiThread] = "partial"
                /\ full_refresh_counter = n - FULL_REFRESH_INTERVAL

\* The T-th plain call in a row has made a full refresh and reset the counter.
C1_Witness ==
    /\ pc[ApiThread] = "db_ret"
    /\ streak = FULL_REFRESH_INTERVAL - 1
    /\ PlainCall(ApiThread)
    /\ mode[ApiThread] = "full"
    /\ full_refresh_counter = 0

\* C2: whatever the counter, the display_boxes(force_full_refresh = false) call
\* that follows force_full_refresh() chooses a full refresh, which resets the
\* counter when it succeeds; the call after a forced refresh that succeeded is
\* chosen by the counter again and is a partial one.
C2_ForceIsOneShot ==
    pc[ApiThread] = "db_ret" =>
        /\ since_force = 1 =>
            /\ use_full[ApiThread]
            /\ mode[ApiThread] = "full"
            /\ outcome[ApiThread] = "ok" => full_refresh_counter = 0
        /\ (since_force = 2 /\ first_forced_ok) =>
            /\ ~use_full[ApiThread]
            /\ mode[ApiThread] \in {"partial", "fallback"}
            /\ full_refresh_counter = 1

\* The second call after force_full_refresh() was a partial refresh.
C2_Witness ==
    /\ pc[ApiThread] = "db_ret"
    /\ since_force = 2
    /\ first_forced_ok
    /\ mode[ApiThread] = "partial"
    /\ outcome[ApiThread] = "ok"

\* C8: a display_boxes call that falls back to a full refresh, because the
\* driver has no partial mode, leaves the counter at 0.
C8_FallbackResetsCounter ==
    (pc[ApiThread] = "db_ret" /\ mode[ApiThread] = "fallback"
        /\ outcome[ApiThread] = "ok") => full_refresh_counter = 0

\* C9: a driver failure inside display_boxes is caught, and the counter after
\* the call is one more than before it.
C9_FailureCaughtCounterAdvanced ==
    (pc[ApiThread] = "db_ret" /\ outcome[ApiThread] \in {"caught", "raised"}) =>
        /\ outcome[ApiThread] = "caught"
        /\ full_refresh_counter = entry_counter + 1

\* The driver's full refresh has failed in a call that returned normally.
C9_Witness ==
    /\ pc[ApiThread] = "db_ret"
    /\ outcome[ApiThread] = "caught"
    /\ mode[ApiThread] = "full"
    /\ failures = MaxFailures
    /\ full_refresh_counter = entry_counter + 1

\* C10: a step that sets the counter to 0 is the return of a successful full
\* refresh of the driver inside display_boxes.
C10_ResetOnlyByFullRefresh ==
    [][(full_refresh_counter' = 0 /\ full_refresh_counter # 0) =>
          \E t \in Threads :
              /\ pc[t] = "epd_full"
              /\ pc'[t] = "db_ret"
              /\ outcome'[t] = "ok"]_vars

\* A forced full refresh has just reset a counter that was above the interval.
C10_Witness ==
    /\ pc[ApiThread] = "db_ret"
    /\ mode[ApiThread] = "full"
    /\ outcome[ApiThread] = "ok"
    /\ entry_counter >= FULL_REFRESH_INTERVAL
    /\ full_refresh_counter = 0

\* C11: the display_boxes call that follows a call whose driver refresh
\* failed makes a full refresh.
C11_FullRefreshAfterFailure ==
    (pc[ApiThread] = "db_ret" /\ prev_failed) => mode[ApiThread] = "full"

(***************************************************************************)
(* The running program: handler threads and the main thread (Spec)         *)
(***************************************************************************)

\* The positions at which a thread is inside a call of the epd driver.
DriverPositions == {"epd_full", "epd_partial", "epd_fallback", "epd_clear", "epd_sleep"}

\* The threads that are inside a call of the epd driver.
InDriver == {t \in ProgramThreads : pc[t] \in DriverPositions}

\* C3: at most one thread is inside a call of the epd driver at any time.
C3_OneDriverCallInFlight == Cardinality(InDriver) <= 1

\* The step of thread t that executes current_box_data[box_number] = new_data.
MergeStepOf(t) == pc[t] = "lock" /\ pc'[t] = "copy"

\* C4: the snapshot changes only by a merge, and a merge for box k puts the
\* merged record at k and keeps every other entry, whatever the other threads
\* do: no assignment is partial and none is lost.
C4_MergesAreWholeAndKept ==
    [][current_box_data' # current_box_data =>
          \/ pc[MainThread] = "m_assign"
          \/ \E t \in Handlers :
              LET k == box_number[t]
              IN  /\ MergeStepOf(t)
                  /\ DOMAIN current_box_data' = DOMAIN current_box_data \cup {k}
                  /\ current_box_data'[k] = new_data[t]
                  /\ \A j \in DOMAIN current_box_data \ {k} :
                         current_box_data'[j] = current_box_data[j]]_vars

\* Two handlers have merged different boxes and both records are in the snapshot.
C4_Witness ==
    \E t, u \in Handlers :
        /\ pc[t] = "db_render"
        /\ pc[u] = "db_render"
        /\ box_number[t] # box_number[u]
        /\ new_data[t] # new_data[u]
        /\ current_box_data[box_number[t]] = new_data[t]
        /\ current_box_data[box_number[u]] = new_data[u]

\* C5: the copy a handler takes for rendering after merging box k has, at
\* every other box, the record the snapshot held just before the merge.
C5_MergeChangesOnlyItsBox ==
    \A t \in Handlers :
        pc[t] = "db_render" =>
            LET k == box_number[t]
            IN  /\ DOMAIN display_data[t] = DOMAIN pre_merge[t] \cup {k}
                /\ display_data[t][k] = new_data[t]
                /\ \A j \in DOMAIN pre_merge[t] \ {k} :
                       display_data[t][j] = pre_merge[t][j]

\* A handler has copied the snapshot after replacing a record of box 2 while
\* the other handler was at work on another box.
C5_Witness ==
    \E t, u \in Handlers :
        /\ pc[t] = "db_render"
        /\ box_number[t] = 2
        /\ pre_merge[t][2] # new_data[t]
        /\ pc[u] \in {"lock", "db_render", "db_store"}
        /\ box_number[u] # 2

\* The positions at which a thread fetches over HTTP, renders, or is in display_boxes.
OutsideLockPositions ==
    {"fetch", "m_fetch", "db_render", "db_store", "db_decide", "db_ret"}
        \cup DriverPositions

SnapshotStored ==
    pc[MainThread] \notin {"start", "m_fetch", "m_lock", "m_assign"}

\* C7: after the initial fetch the keys of the snapshot are the four boxes.
C7_KeysAreTheFourBoxes == SnapshotStored => DOMAIN current_box_data = Boxes

\* C12: a notification for slot k is handled in the order fetch, merge,
\* render: when its render is made, the record has been fetched and merged,
\* the copy passed to display_boxes holds that record at k, and the image has
\* a cell for each of the four slots, the one of k drawn from that record.
C12_FetchMergeRender ==
    [][\A t \in Handlers :
          (pc[t] = "db_render" /\ pc'[t] \in {"db_store", "db_ret"}
              /\ box_number[t] \in Boxes) =>
              LET k == box_number[t]
              IN  /\ new_data[t] # NoRecord
                  /\ pre_merge[t] # NoDict
                  /\ display_data[t][k] = new_data[t]
                  /\ DOMAIN image'[t] = Boxes
                  /\ image'[t][k] = draw_box(k, new_data[t], file_icon)]_vars

\* A handler has rendered the four slots after merging an error record for slot 2.
C12_Witness ==
    \E t \in Handlers :
        /\ pc[t] = "db_store"
        /\ display_data[t][2] = RecError
        /\ DOMAIN image[t] = Boxes
        /\ image[t][2].lines[1] = <<"ERROR">>

\* The positions of a thread inside display_boxes before it returns.
DisplayPositions == {"db_render", "db_store", "db_decide"} \cup DriverPositions

\* C13: the thread that delivers a notification is never held inside the
\* render or the hardware write: its callback returns once the merge is done.
C13_ProducersDoNotWaitOnDisplay ==
    \A t \in Handlers : pc[t] \notin DisplayPositions

\* C14: when the process has exited after one or more shutdown signals,
\* clear_display and sleep_display have each been executed exactly once.
C14_ClearAndSleepOnce ==
    (exited /\ clears >= 1) => (clears = 1 /\ sleeps = 1)

\* C15: once the shutdown handler has begun clear_display, no handler thread
\* is inside display_boxes: no refresh overlaps or follows the clear/sleep.
C15_ClearAfterRenders ==
    clears >= 1 => \A t \in Handlers : pc[t] \notin DisplayPositions

\* C16: every fetch for a notified slot, failed or not, yields a record that
\* is merged, and a failed one is rendered as an ERROR cell of that slot.
C16_FetchFailureBecomesErrorCell ==
    [][\A t \in Handlers :
          /\ (pc[t] = "fetch" /\ pc'[t] # "fetch" /\ ~exited') => pc'[t] = "lock"
          /\ (pc[t] = "db_render" /\ pc'[t] \in {"db_store", "db_ret"}
                 /\ HasError(new_data[t]) /\ box_number[t] \in Boxes) =>
                 /\ HasError(display_data[t][box_number[t]])
                 /\ image'[t][box_number[t]].lines[1] = <<"ERROR">>]_vars

(***************************************************************************)
(* Rendering and size formatting (SpecRender)                              *)
(***************************************************************************)

\* The record create_layout_image draws for box b of the client's snapshot.
DrawnRecord(b) == Get(display_data[ApiThread], b, RecEmpty)

\* C17: each cell shows exactly one state, by priority: ERROR and the message
\* when the record has an error; else Empty when its empty flag is true or
\* missing; else the file lines; and the file icon only with the file lines.
C17_OneStateByPriority ==
    renders >= 1 =>
        \A b \in Boxes :
            LET d == DrawnRecord(b)
                cell == image[ApiThread][b]
            IN  IF HasError(d)
                THEN Len(cell.lines) = 2 /\ cell.lines[1] = <<"ERROR">> /\ ~cell.icon
                ELSE IF Get(d, "empty", TRUE)
                THEN cell.lines = << <<"Empty">> >> /\ ~cell.icon
                ELSE Len(cell.lines) = 3 /\ cell.lines[1][1] = "File: "

\* C18: a snapshot that lacks the entry of a box is rendered, and that box is
\* drawn as Empty, without icon and not as an error.
C18_MissingSlotIsEmpty ==
    renders >= 1 =>
        /\ DOMAIN image[ApiThread] = Boxes
        /\ \A b \in Boxes \ DOMAIN display_data[ApiThread] :
               /\ image[ApiThread][b].number = b
               /\ image[ApiThread][b].lines = << <<"Empty">> >>
               /\ ~image[ApiThread][b].icon

\* A snapshot without box 3 has been rendered next to a box that holds a file.
C18_Witness ==
    /\ renders >= 1
    /\ 3 \notin DOMAIN display_data[ApiThread]
    /\ 1 \in DOMAIN display_data[ApiThread]
    /\ display_data[ApiThread][1] = RecFile
    /\ image[ApiThread][3].lines = << <<"Empty">> >>
    /\ Len(image[ApiThread][1].lines) = 3

RECURSIVE Pow1024(_)
Pow1024(k) == IF k = 0 THEN 1 ELSE 1024 * Pow1024(k - 1)

\* r is b / 1024^k to one decimal, no further from it than half a tenth,
\* where b / 1024^k is int.frac and frac has k >= 1 digits.
NearestTenth(int, frac, r) ==
    LET k == Len(frac)
        u == 10 * (r.whole - IntValue(int)) + r.decimals[1]
        A == IntValue(SubSeq(frac, 1, k - 1))
        c == (20 * frac[k]) \div 1024
        e == (20 * frac[k]) % 1024
        D1 == Pow1024(k - 1)
    IN  /\ Len(r.decimals) = 1
        /\ r.decimals[1] \in 0..9
        /\ r.whole \in {IntValue(int), IntValue(int) + 1}
        /\ 20 * A + c >= (2 * u - 1) * D1
        /\ \/ 20 * A + c < (2 * u + 1) * D1
           \/ 20 * A + c = (2 * u + 1) * D1 /\ e = 0

\* r is the size b in the unit 1024^k with b / 1024^k < 1024, or in GB.
SizeFormatted(b, r) ==
    IF b = None \/ b = <<0>>
    THEN r = [whole |-> 0, decimals |-> <<>>, unit |-> "B"]
    ELSE LET k == IF Len(b) <= Len(units) THEN Len(b) - 1 ELSE Len(units) - 1
         IN  /\ r.unit = units[k + 1]
             /\ IF k = 0
                THEN r.whole = b[1] /\ r.decimals = <<>>
                ELSE NearestTenth(SubSeq(b, 1, Len(b) - k),
                                  SubSeq(b, Len(b) - k + 1, Len(b)), r)

\* C20: the size drawn for a file is its size in the unit B, KB, MB or GB in
\* which it is below 1024 (GB at most), without decimals in B and with one
\* decimal otherwise; an absent or zero size is "0 B"; 500 is "500 B", 1536 is
\* "1.5 KB" and 1048576 is "1.0 MB".
C20_SizeUnitAndDecimals ==
    (renders >= 1 /\ display_data[ApiThread] \in SizeSnapshots) =>
        LET b == display_data[ApiThread][1].size
            r == image[ApiThread][1].lines[3][2]
        IN  /\ SizeFormatted(b, r)
            /\ b = Bytes(500) => r = [whole |-> 500, decimals |-> <<>>, unit |-> "B"]
            /\ b = Bytes(1536) => r = [whole |-> 1, decimals |-> <<5>>, unit |-> "KB"]
            /\ b = Bytes(1048576) => r = [whole |-> 1, decimals |-> <<0>>, unit |-> "MB"]

\* A file of 1024^4 bytes has been drawn as "1024.0 GB".
C20_Witness ==
    /\ renders >= 1
    /\ display_data[ApiThread] \in SizeSnapshots
    /\ display_data[ApiThread][1].size = <<1, 0, 0, 0, 0>>
    /\ image[ApiThread][1].lines[3][2] = [whole |-> 1024, decimals |-> <<0>>, unit |-> "GB"]

\* C21: the size text that api.print_box_status prints with api.format_size
\* for a file is the size text that draw_box draws with util.format_size,
\* for every size of the snapshot, an absent size and 0 included.
C21_SameSizeText ==
    (printed.printed /\ renders >= 1) =>
        \A b \in DOMAIN display_data[ApiThread] :
            LET data == display_data[ApiThread][b]
            IN  (~HasError(data) /\ ~Get(data, "empty", TRUE)) =>
                    /\ printed.boxes[b][4][2] = image[ApiThread][b].lines[3][2]
                    /\ api_format_size(Get(data, "size", None))
                           = format_size(Get(data, "size", None))

\* A file of 1536 bytes was printed and drawn as 1.5 KB.
C21_Witness ==
    /\ printed.printed
    /\ renders >= 1
    /\ 1 \in DOMAIN display_data[ApiThread]
    /\ "size" \in DOMAIN display_data[ApiThread][1]
    /\ display_data[ApiThread][1]["size"] = <<1, 512>>
    /\ ~HasError(display_data[ApiThread][1])
    /\ ~Get(display_data[ApiThread][1], "empty", TRUE)
    /\ printed.boxes[1][4][2] = [whole |-> 1, decimals |-> <<5>>, unit |-> "KB"]
    /\ image[ApiThread][1].lines[3][2] = [whole |-> 1, decimals |-> <<5>>, unit |-> "KB"]

\* The file name of box 1 in the client's snapshot, and the name drawn for it.
GivenName == display_data[ApiThread][1]["name"]
DrawnName == image[ApiThread][1].lines[1][2]

\* The client has rendered a snapshot whose box 1 is drawn as a file.
FileRendered ==
    /\ renders >= 1
    /\ 1 \in DOMAIN display_data[ApiThread]
    /\ ~HasError(display_data[ApiThread][1])
    /\ ~Get(display_data[ApiThread][1], "empty", TRUE)
    /\ "name" \in DOMAIN display_data[ApiThread][1]

\* C22 as stated: a name longer than 30 characters is drawn as a prefix of
\* itself followed by an ellipsis, fewer than 30 characters in all; a name of
\* at most 30 characters is drawn unchanged.
C22_TruncatedUnderCap ==
    FileRendered =>
        IF Len(GivenName) > 30
        THEN /\ \E k \in 0..Len(GivenName) : DrawnName = Prefix(GivenName, k) \o Ellipsis
             /\ Len(DrawnName) < 30
        ELSE DrawnName = GivenName

\* C22, amended: a name longer than 30 characters is drawn as its first 27
\* characters followed by an ellipsis, exactly 30 characters in all; a name
\* of at most 30 characters is drawn unchanged.
C22_TruncatedToCap ==
    FileRendered =>
        IF Len(GivenName) > 30
        THEN /\ DrawnName = Prefix(GivenName, 27) \o Ellipsis
             /\ Len(DrawnName) = 30
        ELSE DrawnName = GivenName

\* A name of 50 characters was drawn in 30 characters that end in an ellipsis.
C22_Witness ==
    /\ FileRendered
    /\ Len(GivenName) = 50
    /\ Len(DrawnName) = 30
    /\ SubSeq(DrawnName, 28, 30) = Ellipsis

\* The error message of box 1 in the client's snapshot, and the one drawn.
GivenError == display_data[ApiThread][1]["error"]
DrawnError == image[ApiThread][1].lines[2][1]

\* The client has rendered a snapshot whose box 1 is drawn as an error.
ErrorRendered ==
    /\ renders >= 1
    /\ 1 \in DOMAIN display_data[ApiThread]
    /\ HasError(display_data[ApiThread][1])

\* C23: the error message drawn is at most 30 characters in all, and it is
\* the original followed by nothing when the original has at most 30
\* characters, a prefix followed by an ellipsis when it has more.
C23_ErrorTextWithinCap ==
    ErrorRendered =>
        /\ Len(DrawnError) <= 30
        /\ IF Len(GivenError) > 30
           THEN \E k \in 0..Len(GivenError) : DrawnError = Prefix(GivenError, k) \o Ellipsis
           ELSE DrawnError = GivenError

\* The HTTP attempts of the current fetch_box_status call.
Gets == Len(SelectSeq(attempt_log, LAMBDA entry : entry.op = "get"))

\* The call's log is attempt, wait of delay, attempt, ..., attempt.
AttemptsThenWaits ==
    /\ Len(attempt_log) % 2 = 1
    /\ \A i \in 1..Len(attempt_log) :
          IF i % 2 = 1
          THEN attempt_log[i].op = "get"
          ELSE attempt_log[i] = [op |-> "sleep", seconds |-> fetch_call.delay]

\* C25: a call of fetch_box_status(box, retries, delay) never makes more than
\* `retries` attempts, and when it ends it has returned a record with an
\* "empty" field: the completed data of its first successful attempt, which is
\* its last attempt, or the error record after exactly `retries` failed
\* attempts; it has waited `delay` after every attempt but the last.
C25_FetchReturnsRecord ==
    /\ pc[ApiThread] \in {"fb_attempt", "fb_sleep"} => Gets < fetch_call.retries
    /\ pc[ApiThread] = "fb_return" =>
          /\ Gets <= fetch_call.retries
          /\ "value" \in DOMAIN fetch_returned
          /\ "empty" \in DOMAIN fetch_returned.value
          /\ IF "error" \in DOMAIN fetch_returned.value
             THEN /\ fetch_returned.value = ErrorRecord
                  /\ Gets = fetch_call.retries
             ELSE \E data \in ReplyObjects : fetch_returned.value = Completed(data)
          /\ AttemptsThenWaits

\* Step i of boot_sequence has ended well: the display was initialised (with
\* or without its icon), the Wi-Fi is connected, the listener is connected,
\* the four boxes were fetched.
StepSucceeded(i) == boot_outcomes[i] \in {"ok", "no_icon"}

\* C24: boot_sequence begins its steps in the order display, Wi-Fi,
\* WebSocket, fetch; once a step has failed no later step is begun and the
\* value returned is (None, None), or ({}, None) when the display failed; box
\* data with a listener is returned only after four steps that succeeded,
\* and that box data has the keys 1, 2, 3, 4.
C24_BootStepsInOrder ==
    /\ boot_steps = SubSeq(StepOrder, 1, Len(boot_steps))
    /\ \A i \in 1..Len(boot_outcomes) :
          ~StepSucceeded(i) =>
              /\ Len(boot_steps) = i
              /\ boot_returned = IF i = 1 THEN BootNoDisplay ELSE BootFailure
    /\ (boot_returned.returned /\ boot_returned.listener = "listener") =>
          /\ Len(boot_outcomes) = Len(StepOrder)
          /\ \A i \in 1..Len(boot_outcomes) : StepSucceeded(i)
          /\ "dict" \in DOMAIN boot_returned.box_data
          /\ DOMAIN boot_returned.box_data.dict = Boxes

\* The JSON value of the last event, when its data is JSON, and its boxNumber.
LastValue ==
    IF last_event.data.str THEN last_event.data.text.json ELSE last_event.data.value
LastBoxNumber == LastValue.object["boxNumber"]

\* The last event carries a boxNumber: its data is a JSON object with a
\* boxNumber that is not null.
CarriesBoxNumber ==
    /\ ~last_event.data.str \/ "json" \in DOMAIN last_event.data.text
    /\ "object" \in DOMAIN LastValue
    /\ "boxNumber" \in DOMAIN LastValue.object
    /\ "null" \notin DOMAIN LastBoxNumber

\* The integer a boxNumber stands for: itself, or the number its text
\* writes, blanks around it aside.
ReadsAsInteger(v) ==
    \/ "int" \in DOMAIN v
    \/ "str" \in DOMAIN v /\ "value" \in DOMAIN IntOf(Strip(v.str))
IntegerOf(v) == IF "int" \in DOMAIN v THEN v.int ELSE IntOf(Strip(v.str)).value

\* C26 as stated: for an event handled by a listener with a callback, the
\* callback was called exactly once, with the box number as an integer, when
\* the data carries a boxNumber, and not at all when the data is not JSON or
\* carries none; no exception has left the handler.
C26_CallbackOncePerBoxNumber ==
    (delivered > 0 /\ on_box_update # "none") =>
        /\ ~escaped
        /\ IF CarriesBoxNumber
           THEN /\ Len(callback_calls) = 1
                /\ ReadsAsInteger(LastBoxNumber)
                /\ callback_calls[1] = IntegerOf(LastBoxNumber)
           ELSE callback_calls = <<>>

\* C26, amended: the callback was called exactly once, with the box number
\* as an integer, when a callback is set and the data carries a boxNumber
\* that is true in Python (not 0, not "") and reads as an integer; it was
\* not called in any other case; no exception has left the handler.
C26_CallbackOncePerValidBoxNumber ==
    delivered > 0 =>
        /\ ~escaped
        /\ IF /\ on_box_update # "none"
              /\ CarriesBoxNumber
              /\ Truthy(LastBoxNumber)
              /\ ReadsAsInteger(LastBoxNumber)
           THEN callback_calls = <<IntegerOf(LastBoxNumber)>>
           ELSE callback_calls = <<>>

\* The event {"boxNumber": " 3 "} arrived as a string and a callback that
\* raises was called once with 3; nothing left the handler.
C26_Witness ==
    /\ delivered > 0
    /\ on_box_update = "raising"
    /\ last_event.data.str
    /\ CarriesBoxNumber
    /\ LastBoxNumber = [str |-> <<" ", "3", " ">>]
    /\ callback_calls = <<3>>
    /\ ~escaped

\* Every notification delivered so far has been handled to its end and the
\* program waits in its main loop.
AllHandled ==
    /\ ~exited
    /\ pc[MainThread] = "loop"
    /\ \A t \in Handlers : pc[t] = "idle"

\* The boxes whose record was fetched for a notification.
FetchedBoxes == {b \in DOMAIN last_fetch : last_fetch[b].fetches > 0}

\* C27: after notifications for two or more different slots, each fetched
\* once, have all been handled without a driver failure, the image presented
\* last is the render of the current snapshot.
C27_LastPresentedIsCurrent ==
    (/\ AllHandled
     /\ failures = 0
     /\ FetchedBoxes \subseteq Boxes
     /\ Cardinality(FetchedBoxes) >= 2
     /\ \A b \in FetchedBoxes : last_fetch[b].fetches = 1) =>
        presented = [image |-> create_layout_image(current_box_data, file_icon),
                     mode |-> presented.mode]

\* C28: at most FULL_REFRESH_INTERVAL - 1 partial refreshes have been made
\* since the last full refresh.
C28_PartialRefreshesBounded == partials <= FULL_REFRESH_INTERVAL - 1

\* C29: after two or more notifications for one slot have all been handled,
\* the snapshot holds for that slot the record that was fetched last.
C29_LatestFetchWins ==
    AllHandled =>
        \A b \in FetchedBoxes :
            last_fetch[b].fetches >= 2 => current_box_data[b] = last_fetch[b].record

====
